---- MODULE Spec2Model ----
(***************************************************************************)
(* Model of onnx_connx/backend.py: the ONNX backend adapter of CONNX.      *)
(*   Backend.is_compatible, Backend.prepare, Backend.run_model,            *)
(*   Backend.run_node and the command-line entry point main.               *)
(* Paths are strings, Python's None/optional values are sequences of       *)
(* length 0 or 1, a keyword dictionary is the ordered sequence of its      *)
(* [key, value] items.                                                     *)
(***************************************************************************)
EXTENDS Integers, Sequences, FiniteSets, TLC

VARIABLES model,    \* the caller's ModelProto (prepare mutates it in place)
          model0,   \* the model as the caller first built it
          fs,       \* the file system entries prepare looks at or creates
          onPath,   \* whether an executable named connx is on the search PATH
          now,      \* the wall clock, in units of one double-precision ulp
          temps,    \* the temporary directories of the two latest execution
                    \* targets prepare handed to a caller, with their draws
          last      \* the latest call: its arguments and what it did

vars == <<model, model0, fs, onPath, now, temps, last>>

-----------------------------------------------------------------------------
(* Bounds of the model *)

MaxNodes == 2      \* nodes of a caller's graph
MaxSlots == 2      \* input slots and output slots of a node under test
MaxInputs == 2     \* tensors handed to run_node, run_model and main
MaxTime == 1       \* the clock stops advancing here
UlpsPerSec == 2    \* doubles per second at the clock's magnitude (2^22 in 2026)
Fine == 2          \* values of random.random() per such ulp (2^31 in 2026)

(* Constants of the libraries the program uses *)

FLOAT == 1                  \* onnx.TensorProto.DataType.FLOAT
INT64 == 7                  \* onnx.TensorProto.DataType.INT64
IR_VERSION == 7             \* onnx.IR_VERSION
onnx_opset_version == 13    \* onnx.defs.onnx_opset_version()

-----------------------------------------------------------------------------
(* Helpers for Python values *)

Min(a, b) == IF a < b THEN a ELSE b

\* zip(xs, ys): pairs up to the shorter of the two
zip(xs, ys) == [i \in 1..Min(Len(xs), Len(ys)) |-> <<xs[i], ys[i]>>]

\* 'k' in kwargs
HasKey(kwargs, k) == \E i \in 1..Len(kwargs) : kwargs[i].key = k

\* kwargs['k']
Get(kwargs, k) == kwargs[CHOOSE i \in 1..Len(kwargs) : kwargs[i].key = k].value

\* *kwargs : unpacking a dictionary with one star yields its keys
Star(kwargs) == [i \in 1..Len(kwargs) |-> kwargs[i].key]

\* sequences over S of length 0..n
SeqUpTo(S, n) == UNION {[1..k -> S] : k \in 0..n}

-----------------------------------------------------------------------------
(* Backend.is_compatible *)

OpTypes == {"Add", "Relu"}

\* get_attrset(specs): the support tables the resolver may answer with; a
\* table maps some operator names to an implementation or to None
get_attrset(specs) ==
    UNION {[S -> {"impl", "None"}] : S \in SUBSET OpTypes}

\* the loop over model.graph.node from node i on: the first node whose
\* operator is absent from the table, or mapped to None, returns False
RECURSIVE compatible_from(_, _, _)
compatible_from(m, attrset, i) ==
    IF i > Len(m.graph.node) THEN TRUE
    ELSE IF \/ m.graph.node[i].op_type \notin DOMAIN attrset
            \/ attrset[m.graph.node[i].op_type] = "None"
         THEN FALSE
         ELSE compatible_from(m, attrset, i + 1)

RECURSIVE present_from(_, _, _)
present_from(m, attrset, i) ==
    IF i > Len(m.graph.node) THEN TRUE
    ELSE IF m.graph.node[i].op_type \notin DOMAIN attrset
         THEN FALSE
         ELSE present_from(m, attrset, i + 1)

is_compatible_absent_only(m, attrset) == present_from(m, attrset, 1)

is_compatible(m, attrset) == compatible_from(m, attrset, 1)

-----------------------------------------------------------------------------
(* Backend.prepare *)

_CONNX_PATHS == <<"onnx_connx/connx", "./connx", "connx">>

OutDirs == {"out/a", "out/b"}

\* the file system entry a relative path names
Norm(path) == IF path = "./connx" THEN "connx" ELSE path

FsPaths == {"onnx_connx/connx", "connx"} \cup OutDirs

\* shutil.which(path) is not None
which(f, onp, path) ==
    IF path \in {"onnx_connx/connx", "./connx"}
    THEN f[Norm(path)] = "exe"
    ELSE onp

check_model(m) == m.valid

DefaultOpset == [domain |-> "", version |-> 1]

ensure_opset_always(m) ==
    [m EXCEPT !.opset_import = Append(@, DefaultOpset)]

ensure_opset(m) ==
    IF Len(m.opset_import) = 0
    THEN [m EXCEPT !.opset_import = Append(@, DefaultOpset)]
    ELSE m

\* the loop over _CONNX_PATHS: path is the loop variable when the loop ends,
\* connx_path stays unbound (<<>>) when no candidate resolves
find_connx_last(f, onp) ==
    LET hits == {i \in 1..Len(_CONNX_PATHS) : which(f, onp, _CONNX_PATHS[i])}
        i == IF hits = {} THEN Len(_CONNX_PATHS)
             ELSE CHOOSE h \in hits : \A g \in hits : h <= g
    IN [path |-> _CONNX_PATHS[i], connx_path |-> <<_CONNX_PATHS[i]>>]

find_connx(f, onp) ==
    LET hits == {i \in 1..Len(_CONNX_PATHS) : which(f, onp, _CONNX_PATHS[i])}
    IN IF hits = {}
       THEN [path |-> _CONNX_PATHS[Len(_CONNX_PATHS)], connx_path |-> <<>>]
       ELSE LET i == CHOOSE h \in hits : \A g \in hits : h <= g
            IN [path |-> _CONNX_PATHS[i], connx_path |-> <<_CONNX_PATHS[i]>>]

\* os.makedirs(path, exist_ok=True)
makedirs(f, path) ==
    LET p == Norm(path)
    IN IF f[p] \in {"exe", "file"}
       THEN [raised |-> "FileExistsError", fs |-> f]
       ELSE [raised |-> "none", fs |-> [f EXCEPT ![p] = "dir"]]

\* time.time() + random.random() in double precision: t is the clock in ulps,
\* r the random fraction in units of 1/Fine ulp; the exact sum is rounded to
\* the nearest ulp, ties to even
FloatAdd(t, r) ==
    LET s == t * Fine + r
        q == s \div Fine
        rem == s % Fine
    IN IF 2 * rem < Fine THEN q
       ELSE IF 2 * rem > Fine THEN q + 1
       ELSE IF q % 2 = 0 THEN q ELSE q + 1

gettempdir == "/tmp"

temp_path_time_only(t, r) == gettempdir \o "/" \o "connx." \o ToString(t)

\* os.path.join(tempfile.gettempdir(), f'connx.{time.time() + random.random()}')
temp_path(t, r) == gettempdir \o "/" \o "connx." \o ToString(FloatAdd(t, r))

\* compile_from_model(model, path): the compiler is called; cok is whether it
\* returns normally
compile_from_model(m, path, cok) ==
    [raised |-> IF cok THEN "none" ELSE "CompilationFailure",
     call |-> [model |-> m, path |-> path]]

\* BackendRep.__init__(connx_path, model_path, delete_path=False)
BackendRep_delete_path_default == FALSE

BackendRep(connx_path, model_path, delete_path) ==
    [connx_path |-> connx_path, model_path |-> model_path,
     delete_path |-> delete_path]

\* what a prepare call that raises leaves behind
Raised(m, f, err, found, mk, compiled) ==
    [model |-> m, fs |-> f, raised |-> err, found |-> found, makedirs |-> mk,
     compiled |-> compiled, rep |-> <<>>, draw |-> <<>>]

\* the two branches on 'out' in kwargs, once connx_path is bound
stage_always_owned(m, kwargs, f, loc, t, r, cok) ==
    LET model_path == IF HasKey(kwargs, "out") THEN Get(kwargs, "out")
                      ELSE temp_path(t, r)
        c == compile_from_model(m, model_path, cok)
    IN IF c.raised # "none"
       THEN Raised(m, f, c.raised, loc.connx_path, <<>>, <<c.call>>)
       ELSE [model |-> m, fs |-> f, raised |-> "none",
             found |-> loc.connx_path, makedirs |-> <<>>,
             compiled |-> <<c.call>>,
             rep |-> <<BackendRep(loc.connx_path[1], model_path, TRUE)>>,
             draw |-> IF HasKey(kwargs, "out") THEN <<>>
                      ELSE <<[t |-> t, r |-> r, path |-> model_path]>>]

stage(m, kwargs, f, loc, t, r, cok) ==
    IF HasKey(kwargs, "out")
    THEN LET model_path == Get(kwargs, "out")
             mk == makedirs(f, loc.path)
         IN IF mk.raised # "none"
            THEN Raised(m, f, mk.raised, loc.connx_path, <<loc.path>>, <<>>)
            ELSE LET c == compile_from_model(m, model_path, cok)
                 IN IF c.raised # "none"
                    THEN Raised(m, mk.fs, c.raised, loc.connx_path,
                                <<loc.path>>, <<c.call>>)
                    ELSE [model |-> m, fs |-> mk.fs, raised |-> "none",
                          found |-> loc.connx_path,
                          makedirs |-> <<loc.path>>,
                          compiled |-> <<c.call>>,
                          rep |-> <<BackendRep(loc.connx_path[1], model_path,
                                      BackendRep_delete_path_default)>>,
                          draw |-> <<>>]
    ELSE LET model_path == temp_path(t, r)
             c == compile_from_model(m, model_path, cok)
         IN IF c.raised # "none"
            THEN Raised(m, f, c.raised, loc.connx_path, <<>>, <<c.call>>)
            ELSE [model |-> m, fs |-> f, raised |-> "none",
                  found |-> loc.connx_path, makedirs |-> <<>>,
                  compiled |-> <<c.call>>,
                  rep |-> <<BackendRep(loc.connx_path[1], model_path, TRUE)>>,
                  draw |-> <<[t |-> t, r |-> r, path |-> model_path]>>]

\* prepare(model, device, **kwargs) in file system f at time t, drawing the
\* random fraction r
prepare(m, device, kwargs, f, onp, t, r, cok) ==
    IF ~ check_model(m)
    THEN Raised(m, f, "ValidationError", <<>>, <<>>, <<>>)
    ELSE LET m1 == ensure_opset(m)
             loc == find_connx(f, onp)
         IN IF loc.connx_path = <<>>
            THEN Raised(m1, f, "UnboundLocalError", <<>>, <<>>, <<>>)
            ELSE stage(m1, kwargs, f, loc, t, r, cok)

-----------------------------------------------------------------------------
(* Backend.run_model, Backend.run_node and main *)

\* get_DataType(dtype): the ONNX element type of a numpy dtype
get_DataType(dtype) ==
    CASE dtype = "float32" -> FLOAT
      [] dtype = "int64" -> INT64

\* onnx.helper.make_tensor_value_info(name, elem_type, shape)
make_tensor_value_info(name, elem_type, shape) ==
    [name |-> name, elem_type |-> elem_type, shape |-> shape]

\* what a call that never gets to prepare, or whose prepare raises, hands on
NoPrepare(f, err) ==
    [fs |-> f, raised |-> err, prepared |-> <<>>, found |-> <<>>,
     makedirs |-> <<>>, compiled |-> <<>>, rep |-> <<>>, draw |-> <<>>,
     ran |-> <<>>, model |-> <<>>]

\* run_model(model, inputs, device, **kwargs): prepare, then backend.run(inputs)
run_model(m, inputs, device, kwargs, f, onp, t, r, cok) ==
    LET p == prepare(m, device, kwargs, f, onp, t, r, cok)
    IN [fs |-> p.fs, raised |-> p.raised,
        prepared |-> <<[model |-> m, device |-> device, kwargs |-> kwargs]>>,
        found |-> p.found, makedirs |-> p.makedirs, compiled |-> p.compiled,
        rep |-> p.rep, draw |-> p.draw,
        ran |-> IF p.raised = "none" THEN <<inputs>> ELSE <<>>,
        model |-> <<p.model>>]

\* the model run_node builds around the node; valid is what check_model will
\* say of it
synth_model_float_inputs(node, inputs, valid) ==
    LET z == zip(inputs, node.input)
    IN [valid |-> valid,
        ir_version |-> IR_VERSION,
        opset_import |-> <<[domain |-> "", version |-> onnx_opset_version]>>,
        graph |->
          [name |-> node.name \o " test (auto generated by connx backend)",
           node |-> <<node>>,
           input |-> [i \in 1..Len(z) |->
                        make_tensor_value_info(z[i][2], FLOAT, z[i][1].shape)],
           output |-> [i \in 1..Len(node.output) |->
                        make_tensor_value_info(node.output[i], FLOAT, <<0>>)]]]

synth_model(node, inputs, valid) ==
    LET z == zip(inputs, node.input)
    IN [valid |-> valid,
        ir_version |-> IR_VERSION,
        opset_import |-> <<[domain |-> "", version |-> onnx_opset_version]>>,
        graph |->
          [name |-> node.name \o " test (auto generated by connx backend)",
           node |-> <<node>>,
           input |-> [i \in 1..Len(z) |->
                        make_tensor_value_info(z[i][2],
                                               get_DataType(z[i][1].dtype),
                                               z[i][1].shape)],
           output |-> [i \in 1..Len(node.output) |->
                        make_tensor_value_info(node.output[i], FLOAT, <<0>>)]]]

\* cls.run_model(model, inputs, device, *kwargs): run_model takes three
\* positional arguments after cls; the keys of kwargs arrive as further ones
\* and no keyword argument is passed
run_node_dispatch(m, inputs, device, kwargs, f, onp, t, r, cok) ==
    IF Len(<<m, inputs, device>> \o Star(kwargs)) > 3
    THEN NoPrepare(f, "TypeError")
    ELSE run_model(m, inputs, device, <<>>, f, onp, t, r, cok)

\* Backend.prepare(model, *kwargs) then backend.run(inputs): prepare takes two
\* positional arguments after cls, model and device
main_dispatch(m, inputs, kwargs, f, onp, t, r, cok) ==
    LET pos == Star(kwargs)
    IN IF Len(pos) > 1
       THEN NoPrepare(f, "TypeError")
       ELSE run_model(m, inputs, IF Len(pos) = 1 THEN pos[1] ELSE "CPU",
                      <<>>, f, onp, t, r, cok)

\* kwargs = {}; if output_dir is not None: kwargs['out'] = output_dir
main_kwargs(o) ==
    IF o # <<>> THEN <<[key |-> "out", value |-> o[1]]>> ELSE <<>>

-----------------------------------------------------------------------------
(* The values the calls are made with *)

Opsets == {<<>>,
           <<[domain |-> "", version |-> 11]>>,
           <<[domain |-> "", version |-> 11],
             [domain |-> "ai.onnx.ml", version |-> 2]>>}

OpNode(op) == [name |-> "n", op_type |-> op,
               input |-> <<"x">>, output |-> <<"y">>]

Graph(nodes) == [name |-> "g", node |-> nodes, input |-> <<>>, output |-> <<>>]

Models(graphs) ==
    [valid : BOOLEAN, ir_version : {IR_VERSION}, opset_import : Opsets,
     graph : graphs]

\* graphs for the compatibility check: their operators are what matters
CompatGraphs ==
    {Graph(ns) : ns \in SeqUpTo({OpNode(op) : op \in OpTypes \cup {"Foo"}},
                              MaxNodes)}

OneGraph == {Graph(<<OpNode("Add")>>)}

FsStates ==
    {f \in [FsPaths -> {"none", "exe", "file", "dir"}] :
        /\ f["onnx_connx/connx"] \in {"none", "exe"}
        /\ \A d \in OutDirs : f[d] = "none"}

Kwargs == {<<>>} \cup {<<[key |-> "out", value |-> d]>> : d \in OutDirs}

Devices == {"CPU", "CUDA"}

Tensors == {[dtype |-> "float32", shape |-> <<2>>],
            [dtype |-> "int64", shape |-> <<>>]}

SlotNames == <<"a", "b", "c", "d">>

\* the nodes under test: n input slots and m output slots
TestNodes ==
    {[name |-> "t", op_type |-> "Add",
      input |-> [i \in 1..n |-> SlotNames[i]],
      output |-> [i \in 1..m |-> "y" \o SlotNames[i]]] :
        n \in 0..MaxSlots, m \in 0..MaxSlots}

Rands == 0..(UlpsPerSec * Fine - 1)

NoCall ==
    [op |-> "none", model_in |-> <<>>, node |-> <<>>, inputs |-> <<>>,
     device |-> "", kwargs |-> <<>>, o |-> <<>>, attrset |-> <<>>,
     result |-> FALSE, raised |-> "none", synth |-> <<>>,
     prepared |-> <<>>, found |-> <<>>, makedirs |-> <<>>, compiled |-> <<>>,
     rep |-> <<>>, ran |-> <<>>, draw |-> <<>>]

\* the outcome d of the prepare/run path, written into the record of a call
WithOutcome(call, d) ==
    [call EXCEPT !.prepared = d.prepared, !.raised = d.raised,
                 !.found = d.found, !.makedirs = d.makedirs,
                 !.compiled = d.compiled, !.rep = d.rep, !.draw = d.draw,
                 !.ran = d.ran]

\* the two latest temporary-directory draws
Window(ts, draw) ==
    IF draw = <<>> THEN ts
    ELSE IF Len(ts) < 2 THEN ts \o draw
    ELSE <<ts[2]>> \o draw

-----------------------------------------------------------------------------
(* Actions *)

\* calls are synchronous: the caller makes one when it holds no result
Idle == last.op = "none"

IsCompatible ==
    /\ Idle
    /\ \E attrset \in get_attrset(model.opset_import) :
        /\ last' = [NoCall EXCEPT !.op = "is_compatible",
                                  !.model_in = <<model>>,
                                  !.attrset = attrset,
                                  !.result = is_compatible(model, attrset)]
        /\ UNCHANGED <<model, model0, fs, onPath, now, temps>>

\* prepare(model, **kwargs): the caller keeps the execution target
Prepare ==
    /\ Idle
    /\ \E kwargs \in Kwargs, r \in Rands, cok \in BOOLEAN :
        LET p == prepare(model, "CPU", kwargs, fs, onPath, now, r, cok)
        IN /\ model' = p.model
           /\ fs' = p.fs
           /\ temps' = Window(temps, p.draw)
           /\ last' = [NoCall EXCEPT !.op = "prepare",
                                     !.model_in = <<model>>,
                                     !.device = "CPU",
                                     !.kwargs = kwargs,
                                     !.prepared = <<[model |-> model,
                                                     device |-> "CPU",
                                                     kwargs |-> kwargs]>>,
                                     !.raised = p.raised,
                                     !.found = p.found,
                                     !.makedirs = p.makedirs,
                                     !.compiled = p.compiled,
                                     !.rep = p.rep,
                                     !.draw = p.draw]
           /\ UNCHANGED <<model0, onPath, now>>

\* run_model(model, inputs, device, **kwargs)
RunModel ==
    /\ Idle
    /\ \E inputs \in SeqUpTo(Tensors, MaxInputs), device \in Devices,
          kwargs \in Kwargs, r \in Rands, cok \in BOOLEAN :
        LET d == run_model(model, inputs, device, kwargs, fs, onPath, now, r, cok)
        IN /\ model' = d.model[1]
           /\ fs' = d.fs
           /\ last' = WithOutcome([NoCall EXCEPT !.op = "run_model",
                                                 !.model_in = <<model>>,
                                                 !.inputs = inputs,
                                                 !.device = device,
                                                 !.kwargs = kwargs], d)
           /\ UNCHANGED <<model0, onPath, now, temps>>

\* run_node(node, inputs, device, **kwargs)
RunNode ==
    /\ Idle
    /\ \E node \in TestNodes, inputs \in SeqUpTo(Tensors, MaxInputs),
          device \in Devices, kwargs \in Kwargs, valid \in BOOLEAN,
          r \in Rands, cok \in BOOLEAN :
        LET m == synth_model(node, inputs, valid)
            d == run_node_dispatch(m, inputs, device, kwargs, fs, onPath,
                                   now, r, cok)
        IN /\ fs' = d.fs
           /\ last' = WithOutcome([NoCall EXCEPT !.op = "run_node",
                                                 !.node = <<node>>,
                                                 !.inputs = inputs,
                                                 !.device = device,
                                                 !.kwargs = kwargs,
                                                 !.synth = <<m>>], d)
           /\ UNCHANGED <<model, model0, onPath, now, temps>>

\* main(args): the model is loaded from its file, so the caller's own model
\* object is not the one prepare mutates
Main ==
    /\ Idle
    /\ \E o \in {<<>>} \cup {<<d>> : d \in OutDirs},
          inputs \in SeqUpTo(Tensors, MaxInputs),
          r \in Rands, cok \in BOOLEAN :
        LET d == main_dispatch(model, inputs, main_kwargs(o), fs, onPath,
                               now, r, cok)
        IN /\ fs' = d.fs
           /\ last' = WithOutcome([NoCall EXCEPT !.op = "main",
                                                 !.model_in = <<model>>,
                                                 !.inputs = inputs,
                                                 !.o = o,
                                                 !.kwargs = main_kwargs(o)], d)
           /\ UNCHANGED <<model, model0, onPath, now, temps>>

\* the caller is done with the result of its call
Forget ==
    /\ ~ Idle
    /\ last' = NoCall
    /\ UNCHANGED <<model, model0, fs, onPath, now, temps>>

Tick ==
    /\ now < MaxTime
    /\ now' = now + 1
    /\ UNCHANGED <<model, model0, fs, onPath, temps, last>>

-----------------------------------------------------------------------------
(* Specifications *)

\* the preparation pipeline in every environment, while the clock runs
Init ==
    /\ model \in Models(OneGraph)
    /\ model0 = model
    /\ fs \in FsStates
    /\ onPath \in BOOLEAN
    /\ now = 0
    /\ temps = <<>>
    /\ last = NoCall

Next == Prepare \/ Tick \/ Forget

Spec == Init /\ [][Next]_vars

\* the compatibility check over graphs and support tables
InitCompat ==
    /\ model \in Models(CompatGraphs)
    /\ model0 = model
    /\ fs = [p \in FsPaths |-> "none"]
    /\ onPath = TRUE
    /\ now = 0
    /\ temps = <<>>
    /\ last = NoCall

NextCompat == IsCompatible \/ Forget

SpecCompat == InitCompat /\ [][NextCompat]_vars

\* the entry points that build their own call to prepare
InitDispatch ==
    /\ model \in {m \in Models(OneGraph) : Len(m.opset_import) <= 1}
    /\ model0 = model
    /\ fs \in {f \in FsStates : f["connx"] \in {"none", "exe"}}
    /\ onPath \in BOOLEAN
    /\ now = 0
    /\ temps = <<>>
    /\ last = NoCall

NextDispatch == RunModel \/ RunNode \/ Main \/ Forget

SpecDispatch == InitDispatch /\ [][NextDispatch]_vars

-----------------------------------------------------------------------------
(* Properties *)

Unsupported(attrset, op) ==
    op \notin DOMAIN attrset \/ attrset[op] = "None"

\* C1: is_compatible returns false exactly when some node of the graph has an
\* operator that the support table lacks or maps to None; in particular it
\* returns true for a graph without nodes, whatever the opset declarations.
C1_Compatible ==
    last.op = "is_compatible" =>
        LET nodes == last.model_in[1].graph.node
        IN /\ last.result = FALSE <=>
                  \E i \in 1..Len(nodes) :
                      Unsupported(last.attrset, nodes[i].op_type)
           /\ Len(nodes) = 0 => last.result = TRUE

\* a graph all of whose operators are in the table, one of them without an
\* implementation, was found incompatible
C1_Witness ==
    /\ last.op = "is_compatible"
    /\ last.result = FALSE
    /\ Len(last.model_in[1].graph.node) >= 2
    /\ \A i \in 1..Len(last.model_in[1].graph.node) :
           last.model_in[1].graph.node[i].op_type \in DOMAIN last.attrset

\* C2: prepare on a valid model without opset declarations leaves it with
\* exactly the default declaration (empty domain, version 1), and that is the
\* model the compiler gets; a model with declarations keeps them unchanged;
\* so a valid model that started without declarations has none (never
\* prepared) or exactly the default one.
C2_DefaultOpset ==
    /\ (last.op = "prepare" /\ last.model_in[1].valid) =>
           LET before == last.model_in[1].opset_import
               after == IF Len(before) = 0 THEN <<DefaultOpset>> ELSE before
           IN /\ model.opset_import = after
              /\ \A i \in 1..Len(last.compiled) :
                     last.compiled[i].model.opset_import = after
    /\ (model0.valid /\ Len(model0.opset_import) = 0) =>
           \/ model = model0
           \/ model.opset_import = <<DefaultOpset>>

\* the compiler was called for a valid model that came without declarations
C2_Witness ==
    /\ last.op = "prepare"
    /\ last.model_in[1].valid
    /\ Len(last.model_in[1].opset_import) = 0
    /\ Len(last.compiled) = 1

\* C3: prepare with out = D and a runtime found creates exactly the directory
\* D, calls the compiler with D and returns a target bound to D.
C3_OutDirCreated ==
    (last.op = "prepare" /\ HasKey(last.kwargs, "out") /\ last.found # <<>>) =>
        LET D == Get(last.kwargs, "out")
        IN /\ last.makedirs = <<D>>
           /\ fs[D] = "dir"
           /\ \A i \in 1..Len(last.compiled) : last.compiled[i].path = D
           /\ \A i \in 1..Len(last.rep) : last.rep[i].model_path = D

NoneResolves ==
    \A i \in 1..Len(_CONNX_PATHS) : ~ which(fs, onPath, _CONNX_PATHS[i])

\* C4: when no candidate of _CONNX_PATHS resolves to an executable, prepare
\* fails without having created a directory, called the compiler or built an
\* execution target.
C4_RuntimeNotFound ==
    (last.op = "prepare" /\ NoneResolves) =>
        /\ last.raised # "none"
        /\ last.makedirs = <<>>
        /\ \A d \in OutDirs : fs[d] = "none"
        /\ last.compiled = <<>>
        /\ last.rep = <<>>

\* a valid model, an out option, and no runtime anywhere
C4_Witness ==
    /\ last.op = "prepare"
    /\ NoneResolves
    /\ last.model_in[1].valid
    /\ HasKey(last.kwargs, "out")
    /\ last.raised = "UnboundLocalError"

\* C5: two targets prepared without out never share their directory.
C5_NoCollision ==
    Len(temps) = 2 => temps[1].path # temps[2].path

\* C5 as amended: under one temporary root, two targets prepared without out
\* share their directory exactly when the double-precision sums
\* time.time() + random.random() of the two calls are equal.
C5_CollideIffSameSum ==
    Len(temps) = 2 =>
        (temps[1].path = temps[2].path
            <=> FloatAdd(temps[1].t, temps[1].r) = FloatAdd(temps[2].t, temps[2].r))

\* a later clock reading and another random fraction, and the same directory
C5_Witness ==
    /\ Len(temps) = 2
    /\ temps[1].t < temps[2].t
    /\ temps[1].r # temps[2].r
    /\ temps[1].path = temps[2].path

C7_SynthModel ==
    (last.op = "run_node" /\ Len(last.inputs) = Len(last.node[1].input)) =>
        LET node == last.node[1]
            m == last.synth[1]
        IN /\ m.graph.node = <<node>>
           /\ m.opset_import = <<[domain |-> "", version |-> onnx_opset_version]>>
           /\ Len(m.graph.input) = Len(node.input)
           /\ \A i \in 1..Len(node.input) :
                  /\ m.graph.input[i].name = node.input[i]
                  /\ m.graph.input[i].elem_type = get_DataType(last.inputs[i].dtype)
                  /\ m.graph.input[i].shape = last.inputs[i].shape
           /\ Len(m.graph.output) = Len(node.output)
           /\ \A j \in 1..Len(node.output) :
                  /\ m.graph.output[j].name = node.output[j]
                  /\ m.graph.output[j].elem_type = FLOAT
                  /\ m.graph.output[j].shape = <<0>>
           /\ \A i \in 1..Len(last.prepared) : last.prepared[i].model = m
           /\ \A i \in 1..Len(last.compiled) : last.compiled[i].model = m

\* two tensors of different element types for a node with two input slots
\* and an output slot, compiled
C7_Witness ==
    /\ last.op = "run_node"
    /\ Len(last.inputs) = 2
    /\ Len(last.node[1].input) = 2
    /\ Len(last.node[1].output) >= 1
    /\ last.inputs[1].dtype # last.inputs[2].dtype
    /\ Len(last.compiled) = 1

\* C8: main with -o D hands out = D to prepare: the artifact is compiled into
\* D and the target is not marked for deletion.
C8_MainOut ==
    (last.op = "main" /\ last.o # <<>>) =>
        LET D == last.o[1]
        IN /\ \A i \in 1..Len(last.prepared) :
                  /\ HasKey(last.prepared[i].kwargs, "out")
                  /\ Get(last.prepared[i].kwargs, "out") = D
           /\ \A i \in 1..Len(last.compiled) : last.compiled[i].path = D
           /\ \A i \in 1..Len(last.rep) :
                  /\ last.rep[i].model_path = D
                  /\ ~ last.rep[i].delete_path

\* C9: run_node hands its model to run_model and prepare with the device and
\* the keyword options it was given, and its own dispatch does not fail.
C9_Dispatch ==
    last.op = "run_node" =>
        /\ last.raised # "TypeError"
        /\ Len(last.prepared) = 1
        /\ last.prepared[1].model = last.synth[1]
        /\ last.prepared[1].device = last.device
        /\ last.prepared[1].kwargs = last.kwargs
        /\ last.raised = "none" => last.ran = <<last.inputs>>

\* C10: run_node with k tensors for n input slots, k # n, raises nothing of
\* its own: the model has min(k, n) graph inputs, paired by position, and
\* all k tensors go on to execution.
C10_Mismatch ==
    (last.op = "run_node" /\ Len(last.inputs) # Len(last.node[1].input)) =>
        LET node == last.node[1]
            m == last.synth[1]
            k == Min(Len(last.inputs), Len(node.input))
        IN /\ last.raised # "TypeError"
           /\ Len(m.graph.input) = k
           /\ \A i \in 1..k :
                  /\ m.graph.input[i].name = node.input[i]
                  /\ m.graph.input[i].elem_type = get_DataType(last.inputs[i].dtype)
                  /\ m.graph.input[i].shape = last.inputs[i].shape
           /\ last.raised = "none" => last.ran = <<last.inputs>>

====
